---- MODULE Spec2Model ----
(***************************************************************************)
(* LibreLyre: PDF -> audiobook pipeline.                                   *)
(*                                                                         *)
(*   renderer  src/src/renderer/src/App.tsx   generateAudiobook,           *)
(*             chunkTextStrictly, handleFileUpload, Generate button        *)
(*   main      src/src/main/index.ts          process-audiobook,           *)
(*             concatenate-audio-buffers, createWavBuffer                  *)
(*                                                                         *)
(* The specifications of the module:                                       *)
(*   SpecChunk  the loop of chunkTextStrictly on every small text          *)
(*   SpecWav    concatenate-audio-buffers / createWavBuffer on every small *)
(*              list of segments                                           *)
(*   Spec       the renderer: file uploads interleaved with one invocation *)
(*              of generateAudiobook                                       *)
(*   SpecUI     the same with two clicks on Generate                       *)
(*   SpecLive   Spec, with every awaited call returning or failing         *)
(*   SpecOcr    the process-audiobook handler on every small request       *)
(*   SpecClean  the text cleanup of process-audiobook on every small text  *)
(*   SpecCrop   the page view and the crop controls up to a submission     *)
(*                                                                         *)
(* JavaScript strings are 0-indexed; a string is modelled as a sequence of *)
(* one-character strings and CharAt / Substring keep the 0-based indices   *)
(* of the source.                                                          *)
(***************************************************************************)
EXTENDS Integers, Sequences, FiniteSets, TLC

VARIABLES
    \* ---- chunkTextStrictly (App.tsx 708-759)
    text,            \* parameter text
    maxChunkSize,    \* parameter maxChunkSize
    position,        \* let position
    chunks,          \* const chunks: string[]
    windowStart,     \* value of position at the start of the last window that was cut
    bestBreak,       \* bestBreak of the last iteration (-1 before any cut)
    chunkPc          \* "loop" | "done"

VARIABLES
    \* ---- concatenate-audio-buffers (index.ts 168-216)
    audioData,       \* argument audioData: { audio: number[]; sampling_rate }[]
    wavPc,           \* "call" | "returned"
    concatResult,    \* the handler's return value
    downloads        \* the bytes of <downloads>/<outputFile>, NoFile when not written

chunkVars == <<text, maxChunkSize, position, chunks, windowStart, bestBreak, chunkPc>>

VARIABLES
    \* ---- the renderer's state (App.tsx 587-603) and its running invocations
    pdfFile,         \* useState pdfFile: "null" | "file"
    uploadPending,   \* a handleFileUpload is awaiting file.arrayBuffer()
    processing,      \* useState processing: { status, progress, message }
    run              \* the invocations of generateAudiobook: locals, position, events

wavVars == <<audioData, wavPc, concatResult, downloads>>

uiVars == <<pdfFile, uploadPending, processing, run>>

VARIABLES
    \* ---- process-audiobook (index.ts 79-165)
    numPages,        \* the number of pages of the document in pdfBuffer
    pageHeight,      \* the height of each page of the document, in source pixels
    pageRange,       \* argument pageRange: <<startPage, endPage>>
    cropSettings,    \* argument cropSettings: { top, bottom }
    language,        \* argument language
    images,          \* const images: what pdfToPng resolved to
    imageIdx,        \* the position of "for (const image of images)"
    extractCalls,    \* the arguments of the calls of sharp(...).extract, in order
    recognizeCalls,  \* the pages handed to worker.recognize, in order
    recognized,      \* the texts worker.recognize resolved to, in order
    extractedText,   \* let extractedText
    ocrPc,           \* "idle" | "render" | "createWorker" | "extract" | "recognize" | "returned"
    ocrResult,       \* the handler's return value
    tempFolder,      \* the folder libre-lyre-temp exists
    rmdirInitiated   \* fs.rmdir("libre-lyre-temp", ...) has been called

ocrVars == <<numPages, pageHeight, pageRange, cropSettings, language, images, imageIdx,
             extractCalls, recognizeCalls, recognized, extractedText, ocrPc, ocrResult,
             tempFolder, rmdirInitiated>>

VARIABLES
    \* ---- the page view of the renderer (App.tsx 589-603)
    currentPage,     \* useState currentPage
    pageInfo,        \* useState pageInfo: { width, height } of the page last loaded
    cropInitialized  \* useState cropInitialized

viewVars == <<currentPage, pageInfo, cropInitialized>>

vars == <<chunkVars, wavVars, uiVars, ocrVars, viewVars>>

(***************************************************************************)
(* Bounds of the model.                                                    *)
(***************************************************************************)
MaxTextLen == 8
MaxChunkSize == 5
MaxSegments == 2
MaxTotalSamples == 2
MaxSentences == 2
SentenceLen == 390
MaxPages == 3
MaxCleanLen == 7

\* chunkTextStrictly(result.text, 400)
ChunkSize == 400

(***************************************************************************)
(* Strings.                                                                *)
(***************************************************************************)
Alphabet == {"a", ".", " "}

\* /\s/.test(c)
IsSpace(c) == c \in {" ", "\t", "\n"}

\* /[.!?]/.test(c)
IsTerminator(c) == c \in {".", "!", "?"}

\* text[i], 0-based
CharAt(s, i) == s[i + 1]

\* s.substring(a, b) for 0 <= a <= b <= s.length
Substring(s, a, b) == SubSeq(s, a + 1, b)

\* s.substring(a)
SubstringFrom(s, a) == SubSeq(s, a + 1, Len(s))

RECURSIVE TrimStart(_)
TrimStart(s) ==
    IF s # <<>> /\ IsSpace(Head(s)) THEN TrimStart(Tail(s)) ELSE s

RECURSIVE TrimEnd(_)
TrimEnd(s) ==
    IF s # <<>> /\ IsSpace(s[Len(s)]) THEN TrimEnd(SubSeq(s, 1, Len(s) - 1)) ELSE s

\* String.prototype.trim
Trim(s) == TrimEnd(TrimStart(s))

\* all strings over Alphabet of length <= n
StringsUpTo(n) == UNION {[1..k -> Alphabet] : k \in 0..n}

(***************************************************************************)
(* chunkTextStrictly: the two backward scans and the cut.                  *)
(*   i > position + maxChunkSize * 0.5   <=>   2*i  > 2*position + m       *)
(*   i > position + maxChunkSize * 0.7   <=>   10*i > 10*position + 7*m    *)
(***************************************************************************)

\* for (let i = chunkEnd; i > position + maxChunkSize * 0.5; i--): first hit or -1
RECURSIVE SentenceScan(_, _, _, _)
SentenceScan(s, p, m, i) ==
    IF ~(2 * i > 2 * p + m) THEN -1
    ELSE IF /\ IsTerminator(CharAt(s, i))
            /\ i < Len(s) - 1
            /\ IsSpace(CharAt(s, i + 1))
         THEN i + 1
         ELSE SentenceScan(s, p, m, i - 1)

\* for (let i = chunkEnd; i > position + maxChunkSize * 0.7; i--): first hit or -1
RECURSIVE WordScan(_, _, _, _)
WordScan(s, p, m, i) ==
    IF ~(10 * i > 10 * p + 7 * m) THEN -1
    ELSE IF IsSpace(CharAt(s, i)) THEN i
         ELSE WordScan(s, p, m, i - 1)

\* a variant that prefers the word boundary to the sentence boundary
BestBreakWordFirst(s, p, m) ==
    LET chunkEnd == p + m
        word     == WordScan(s, p, m, chunkEnd)
        sentence == IF word = -1 THEN SentenceScan(s, p, m, chunkEnd) ELSE word
    IN  IF sentence = -1 THEN chunkEnd ELSE sentence

\* a variant without the forced break: bestBreak stays at position when no
\* boundary is found
BestBreakNoForce(s, p, m) ==
    LET chunkEnd == p + m
        sentence == SentenceScan(s, p, m, chunkEnd)
        word     == IF sentence = -1 THEN WordScan(s, p, m, chunkEnd) ELSE sentence
    IN  IF word = -1 THEN p ELSE word

\* bestBreak after the three attempts (sentence, word, forced), chunkEnd < text.length
BestBreak(s, p, m) ==
    LET chunkEnd == p + m
        sentence == SentenceScan(s, p, m, chunkEnd)
        word     == IF sentence = -1 THEN WordScan(s, p, m, chunkEnd) ELSE sentence
    IN  IF word = -1 THEN chunkEnd ELSE word

\* while (position < text.length && /\s/.test(text[position])) position++
RECURSIVE SkipWhitespace(_, _)
SkipWhitespace(s, p) ==
    IF p < Len(s) /\ IsSpace(CharAt(s, p)) THEN SkipWhitespace(s, p + 1) ELSE p

\* chunks after "const chunk = ....trim(); if (chunk.length > 0) chunks.push(chunk)"
PushTrimmed(cs, s, p, b) ==
    LET chunk == Trim(Substring(s, p, b))
    IN  IF Len(chunk) > 0 THEN Append(cs, chunk) ELSE cs

\* a variant that trims the remainder and drops it when nothing is left
PushRestTrimmed(cs, s, p) == PushTrimmed(cs, s, p, Len(s))

\* chunks after "chunks.push(text.substring(position))"
PushRest(cs, s, p) == Append(cs, SubstringFrom(s, p))

\* a variant that resumes one character past the cut
NextPositionPastCut(s, b) == SkipWhitespace(s, b + 1)

\* position after the cut: bestBreak, then the whitespace skip
NextPosition(s, b) == SkipWhitespace(s, b)

\* the whole function, as the loop computes it
RECURSIVE ChunkLoop(_, _, _, _)
ChunkLoop(s, m, p, cs) ==
    IF ~(p < Len(s)) THEN cs
    ELSE IF p + m >= Len(s) THEN PushRest(cs, s, p)
    ELSE LET b == BestBreak(s, p, m)
         IN  ChunkLoop(s, m, NextPosition(s, b), PushTrimmed(cs, s, p, b))

chunkTextStrictly(s, m) == ChunkLoop(s, m, 0, <<>>)

(***************************************************************************)
(* createWavBuffer and the concatenate-audio-buffers handler.              *)
(*                                                                         *)
(* A sample is a multiple of 1/4, held as its numerator: 4 is 1.0, -5 is   *)
(* -1.25.  Multiples of 1/4 are exact both as number and as Float32Array   *)
(* element, so Array.from / new Float32Array leave them unchanged, and     *)
(* sample * 0x7fff is the exact rational (numerator * 32767) / 4.          *)
(* A Buffer is a sequence of bytes 0..255; offsets are 0-based.            *)
(***************************************************************************)
\* 0x7fff
Int16Scale == 32767

\* the header length, the offset of the first sample
WavHeaderLen == 44

SampleValues == {-5, -4, -1, 0, 1, 4, 5}

SamplingRates == {22050, 24000}

NoFile == <<>>

\* Math.max(-1, Math.min(1, x)) on numerators of quarters
Clamp(x) ==
    LET lo == IF 4 < x THEN 4 ELSE x
    IN  IF -4 > lo THEN -4 ELSE lo

\* the integer a Buffer write stores for the number n/d: ToUint8 / >>> truncate
\* the fraction toward zero
Truncate(n, d) == IF n >= 0 THEN n \div d ELSE -((-n) \div d)

\* Math.round(n/d) = floor(n/d + 1/2)
Round(n, d) == (2 * n + d) \div (2 * d)

\* the bytes buf.writeUInt32LE(v, off) stores
UInt32LE(v) ==
    <<v % 256, (v \div 256) % 256, (v \div 65536) % 256, (v \div 16777216) % 256>>

\* the bytes buf.writeUInt16LE(v, off) stores
UInt16LE(v) == <<v % 256, (v \div 256) % 256>>

\* a variant that rounds the value to the nearest integer before storing it
Int16LERounded(n, d) ==
    LET v == Round(n, d)
    IN  <<v % 256, ((v % 65536) \div 256) % 256>>

\* the bytes buf.writeInt16LE(n/d, off) stores: buf[off] = value,
\* buf[off + 1] = value >>> 8, both after truncating value
Int16LE(n, d) ==
    LET v == Truncate(n, d)
    IN  <<v % 256, ((v % 65536) \div 256) % 256>>

\* buf with bytes written at offset off
WriteBytes(buf, off, bytes) ==
    [k \in 1..Len(buf) |->
        IF k - 1 >= off /\ k - 1 < off + Len(bytes) THEN bytes[k - off] ELSE buf[k]]

\* Buffer.alloc(n)
BufferAlloc(n) == [k \in 1..n |-> 0]

\* a variant that writes the sample count where the byte count belongs
RiffSizeInSamples(length) == 36 + length

\* the value of the RIFF size field, at offset 4
RiffSize(length) == 36 + length * 2

\* the value of the data size field, at offset 40
DataSize(length) == length * 2

\* the 13 header writes of createWavBuffer, in order
\* a variant whose byte rate field is the sample rate (one byte per sample)
WriteWavHeaderOneByte(buf, length, sampleRate) ==
    LET b1  == WriteBytes(buf, 0, <<82, 73, 70, 70>>)
        b2  == WriteBytes(b1, 4, UInt32LE(RiffSize(length)))
        b3  == WriteBytes(b2, 8, <<87, 65, 86, 69>>)
        b4  == WriteBytes(b3, 12, <<102, 109, 116, 32>>)
        b5  == WriteBytes(b4, 16, UInt32LE(16))
        b6  == WriteBytes(b5, 20, UInt16LE(1))
        b7  == WriteBytes(b6, 22, UInt16LE(1))
        b8  == WriteBytes(b7, 24, UInt32LE(sampleRate))
        b9  == WriteBytes(b8, 28, UInt32LE(sampleRate))
        b10 == WriteBytes(b9, 32, UInt16LE(2))
        b11 == WriteBytes(b10, 34, UInt16LE(16))
        b12 == WriteBytes(b11, 36, <<100, 97, 116, 97>>)
    IN  WriteBytes(b12, 40, UInt32LE(DataSize(length)))

\* the 44-byte header written by createWavBuffer
WriteWavHeader(buf, length, sampleRate) ==
    LET b1  == WriteBytes(buf, 0, <<82, 73, 70, 70>>)             \* "RIFF"
        b2  == WriteBytes(b1, 4, UInt32LE(RiffSize(length)))
        b3  == WriteBytes(b2, 8, <<87, 65, 86, 69>>)              \* "WAVE"
        b4  == WriteBytes(b3, 12, <<102, 109, 116, 32>>)          \* "fmt "
        b5  == WriteBytes(b4, 16, UInt32LE(16))
        b6  == WriteBytes(b5, 20, UInt16LE(1))
        b7  == WriteBytes(b6, 22, UInt16LE(1))
        b8  == WriteBytes(b7, 24, UInt32LE(sampleRate))
        b9  == WriteBytes(b8, 28, UInt32LE(sampleRate * 2))
        b10 == WriteBytes(b9, 32, UInt16LE(2))
        b11 == WriteBytes(b10, 34, UInt16LE(16))
        b12 == WriteBytes(b11, 36, <<100, 97, 116, 97>>)          \* "data"
    IN  WriteBytes(b12, 40, UInt32LE(DataSize(length)))

\* for (let i = 0; i < length; i++) { clamp; buffer.writeInt16LE(...) }, from i on
RECURSIVE WriteSamples(_, _, _)
WriteSamples(buf, samples, i) ==
    IF ~(i < Len(samples)) THEN buf
    ELSE LET sample == Clamp(samples[i + 1])
         IN  WriteSamples(WriteBytes(buf, WavHeaderLen + i * 2,
                                     Int16LE(sample * Int16Scale, 4)),
                          samples, i + 1)

createWavBuffer(samples, sampleRate) ==
    LET length == Len(samples)
        buffer == BufferAlloc(WavHeaderLen + length * 2)
    IN  WriteSamples(WriteWavHeader(buffer, length, sampleRate), samples, 0)

\* audioData.forEach(chunk => totalLength += chunk.audio.length)
RECURSIVE TotalLength(_)
TotalLength(data) ==
    IF data = <<>> THEN 0 ELSE Len(Head(data).audio) + TotalLength(Tail(data))

\* typedArray.set(src, offset)
SetAt(arr, src, offset) ==
    [k \in 1..Len(arr) |->
        IF k - 1 >= offset /\ k - 1 < offset + Len(src) THEN src[k - offset] ELSE arr[k]]

\* a variant that never advances offset: every segment lands at index 0
RECURSIVE CombineFromNoAdvance(_, _, _)
CombineFromNoAdvance(combined, data, offset) ==
    IF data = <<>> THEN combined
    ELSE CombineFromNoAdvance(SetAt(combined, Head(data).audio, offset), Tail(data),
                              offset)

\* for (const chunk of audioData) { combinedAudio.set(audioArray, offset); offset += ... }
RECURSIVE CombineFrom(_, _, _)
CombineFrom(combined, data, offset) ==
    IF data = <<>> THEN combined
    ELSE CombineFrom(SetAt(combined, Head(data).audio, offset), Tail(data),
                     offset + Len(Head(data).audio))

\* combinedAudio after the loop
CombinedAudio(data) == CombineFrom([k \in 1..TotalLength(data) |-> 0], data, 0)

\* a variant that takes the rate of the last segment
WavOfLastRate(data) == createWavBuffer(CombinedAudio(data), data[Len(data)].sampling_rate)

\* wavBuffer of a non-empty audioData: the first segment's rate goes in the header
WavOf(data) == createWavBuffer(CombinedAudio(data), data[1].sampling_rate)

\* all sample arrays of length <= n
SamplesUpTo(n) == UNION {[1..k -> SampleValues] : k \in 0..n}

RECURSIVE SumSeq(_)
SumSeq(q) == IF q = <<>> THEN 0 ELSE Head(q) + SumSeq(Tail(q))

\* the samples w cut into segments of the lengths lens, with the rates given
RECURSIVE Segmented(_, _, _)
Segmented(w, lens, rates) ==
    IF lens = <<>> THEN <<>>
    ELSE <<[audio |-> SubSeq(w, 1, Head(lens)), sampling_rate |-> Head(rates)]>>
         \o Segmented(SubSeq(w, Head(lens) + 1, Len(w)), Tail(lens), Tail(rates))

(***************************************************************************)
(* SpecChunk: one loop iteration per step.                                 *)
(***************************************************************************)
\* the text of the boundary-preference example, "Hello world. Goodbye now."
HelloText ==
    <<"H", "e", "l", "l", "o", " ", "w", "o", "r", "l", "d", ".", " ",
      "G", "o", "o", "d", "b", "y", "e", " ", "n", "o", "w", ".">>

\* the variables of concatenate-audio-buffers, at rest
WavIdle ==
    /\ audioData = <<>>
    /\ wavPc = "returned"
    /\ concatResult = [success |-> FALSE, error |-> "none"]
    /\ downloads = NoFile

\* the renderer after construction (the useState initial values)
UiIdle ==
    /\ pdfFile = "null"
    /\ uploadPending = FALSE
    /\ processing = [status |-> "idle", progress |-> [num |-> 0, den |-> 1],
                     message |-> "", unit |-> 0, total |-> 0]
    /\ run = [r \in {"r1", "r2"} |-> [pc |-> "unused"]]

\* the variables of process-audiobook, at rest
\* useState pageInfo: { width: 612, height: 792 }, "Default letter size"
DefaultPageWidth == 612

DefaultPageHeight == 792

ViewIdle ==
    /\ currentPage = 1
    /\ pageInfo = [width |-> DefaultPageWidth, height |-> DefaultPageHeight]
    /\ cropInitialized = FALSE

OcrIdle ==
    /\ numPages = 1
    /\ pageHeight = <<100>>
    /\ pageRange = <<1, 1>>
    /\ cropSettings = [top |-> 50, bottom |-> 50]
    /\ language = "English"
    /\ images = <<>>
    /\ imageIdx = 0
    /\ extractCalls = <<>>
    /\ recognizeCalls = <<>>
    /\ recognized = <<>>
    /\ extractedText = <<>>
    /\ ocrPc = "idle"
    /\ ocrResult = [success |-> FALSE, text |-> <<>>, pageCount |-> 0, error |-> "none"]
    /\ tempFolder = FALSE
    /\ rmdirInitiated = FALSE

InitChunk ==
    /\ WavIdle
    /\ UiIdle
    /\ ViewIdle
    /\ OcrIdle
    /\ \/ /\ text \in StringsUpTo(MaxTextLen)
          /\ maxChunkSize \in 1..MaxChunkSize
       \/ /\ text = HelloText
          /\ maxChunkSize = 15
    /\ position = 0
    /\ chunks = <<>>
    /\ windowStart = 0
    /\ bestBreak = -1
    /\ chunkPc = "loop"

\* while (position < text.length) is false: return chunks
ChunkReturn ==
    /\ chunkPc = "loop"
    /\ ~(position < Len(text))
    /\ chunkPc' = "done"
    /\ UNCHANGED <<text, maxChunkSize, position, chunks, windowStart, bestBreak>>
    /\ UNCHANGED <<wavVars, uiVars, ocrVars, viewVars>>

\* if (chunkEnd >= text.length) { chunks.push(text.substring(position)); break }
ChunkTakeRest ==
    /\ chunkPc = "loop"
    /\ position < Len(text)
    /\ position + maxChunkSize >= Len(text)
    /\ chunks' = PushRest(chunks, text, position)
    /\ chunkPc' = "done"
    /\ UNCHANGED <<text, maxChunkSize, position, windowStart, bestBreak>>
    /\ UNCHANGED <<wavVars, uiVars, ocrVars, viewVars>>

\* one full iteration that cuts the window
ChunkCut ==
    /\ chunkPc = "loop"
    /\ position < Len(text)
    /\ position + maxChunkSize < Len(text)
    /\ LET b == BestBreak(text, position, maxChunkSize)
       IN  /\ bestBreak' = b
           /\ chunks' = PushTrimmed(chunks, text, position, b)
           /\ position' = NextPosition(text, b)
    /\ windowStart' = position
    /\ UNCHANGED <<text, maxChunkSize, chunkPc>>
    /\ UNCHANGED <<wavVars, uiVars, ocrVars, viewVars>>

NextChunk == ChunkReturn \/ ChunkTakeRest \/ ChunkCut

SpecChunk == InitChunk /\ [][NextChunk]_vars

(***************************************************************************)
(* Properties of chunkTextStrictly (checked under SpecChunk).              *)
(***************************************************************************)
RECURSIVE Concat(_)
Concat(cs) == IF cs = <<>> THEN <<>> ELSE Head(cs) \o Concat(Tail(cs))

RECURSIVE StripSpace(_)
StripSpace(s) ==
    IF s = <<>> THEN <<>>
    ELSE IF IsSpace(Head(s)) THEN StripSpace(Tail(s))
         ELSE <<Head(s)>> \o StripSpace(Tail(s))

HasSpace(s) == \E k \in 1..Len(s) : IsSpace(s[k])

SetMax(S) == CHOOSE x \in S : \A y \in S : y <= x

\* C4: every chunk has length <= maxChunkSize, except a chunk that is one
\* whitespace-free run longer than maxChunkSize.
ChunkSizeBound ==
    \A k \in 1..Len(chunks) :
        \/ Len(chunks[k]) <= maxChunkSize
        \/ ~HasSpace(chunks[k])

\* C5: the chunks, concatenated and stripped of whitespace, are the text
\* stripped of whitespace: nothing is lost, duplicated or reordered.
ChunkCoverage ==
    chunkPc = "done" => StripSpace(Concat(chunks)) = StripSpace(text)

\* C5 witness: a finished run that cut the text at least twice, on a text that
\* has inner whitespace and a sentence terminator.
ChunkCoverageWitness ==
    /\ chunkPc = "done"
    /\ Len(chunks) >= 3
    /\ HasSpace(Trim(text))
    /\ \E k \in 1..Len(text) : IsTerminator(text[k])

\* C6: no emitted chunk is empty or whitespace-only.
NoBlankChunk ==
    \A k \in 1..Len(chunks) : Trim(chunks[k]) # <<>>

\* C7: every emitted chunk is trimmed: it neither begins nor ends with a
\* whitespace character.
ChunksTrimmed ==
    \A k \in 1..Len(chunks) :
        chunks[k] # <<>> =>
            /\ ~IsSpace(chunks[k][1])
            /\ ~IsSpace(chunks[k][Len(chunks[k])])

\* C19: the empty text gives no chunk, and a non-empty text of length
\* <= maxChunkSize gives exactly one chunk.
ShortTextOneChunk ==
    chunkPc = "done" =>
        /\ text = <<>> => chunks = <<>>
        /\ (text # <<>> /\ Len(text) <= maxChunkSize) => Len(chunks) = 1

\* C19 witness: a finished run on a non-empty text no longer than maxChunkSize
\* that holds whitespace and other characters.
ShortTextOneChunkWitness ==
    /\ chunkPc = "done"
    /\ text # <<>>
    /\ Len(text) <= maxChunkSize
    /\ HasSpace(text)
    /\ Trim(text) # <<>>
    /\ Len(chunks) = 1

\* the indices a sentence cut may use in the window starting at p: a terminator
\* followed by whitespace, in (p + 0.5*m, p + m]
SentenceCandidates(s, p, m) ==
    {i \in 0..(p + m) :
        /\ 2 * i > 2 * p + m
        /\ i + 1 < Len(s)
        /\ IsTerminator(CharAt(s, i))
        /\ IsSpace(CharAt(s, i + 1))}

\* the indices a word cut may use: a whitespace character in (p + 0.7*m, p + m]
WordCandidates(s, p, m) ==
    {i \in 0..(p + m) :
        /\ 10 * i > 10 * p + 7 * m
        /\ i < Len(s)
        /\ IsSpace(CharAt(s, i))}

\* C8: in a window whose naive cut c = p + maxChunkSize is inside the text the
\* cut is (1) just after the terminator-before-whitespace nearest to c among the
\* indices above p + 0.5*maxChunkSize, (2) otherwise at the whitespace nearest
\* to c among the indices above p + 0.7*maxChunkSize, (3) otherwise at c; and
\* "Hello world. Goodbye now." with maxChunkSize 15 has first chunk
\* "Hello world.".
BoundaryPreference ==
    /\ bestBreak # -1 =>
         LET p == windowStart
             S == SentenceCandidates(text, p, maxChunkSize)
             W == WordCandidates(text, p, maxChunkSize)
         IN  bestBreak = IF S # {} THEN SetMax(S) + 1
                         ELSE IF W # {} THEN SetMax(W)
                         ELSE p + maxChunkSize
    /\ (text = HelloText /\ maxChunkSize = 15 /\ chunkPc = "done") =>
         /\ chunks # <<>>
         /\ chunks[1] = SubSeq(HelloText, 1, 12)

\* C8 witness: a cut window that holds both a sentence candidate and a
\* whitespace nearer to the naive cut, so the priority decides the cut.
BoundaryPreferenceWitness ==
    /\ bestBreak # -1
    /\ LET S == SentenceCandidates(text, windowStart, maxChunkSize)
           W == WordCandidates(text, windowStart, maxChunkSize)
       IN  /\ S # {}
           /\ W # {}
           /\ SetMax(W) > SetMax(S) + 1
           /\ bestBreak = SetMax(S) + 1

(***************************************************************************)
(* SpecWav: the concatenate-audio-buffers handler on every small list of   *)
(* segments.                                                               *)
(***************************************************************************)
\* the variables of chunkTextStrictly, at rest
ChunkIdle ==
    /\ text = <<>>
    /\ maxChunkSize = 1
    /\ position = 0
    /\ chunks = <<>>
    /\ windowStart = 0
    /\ bestBreak = -1
    /\ chunkPc = "done"

InitWav ==
    /\ ChunkIdle
    /\ UiIdle
    /\ ViewIdle
    /\ OcrIdle
    \* every list of at most MaxSegments segments with at most MaxTotalSamples
    \* samples in total
    /\ \E n \in 0..MaxSegments, w \in SamplesUpTo(MaxTotalSamples) :
          \E lens \in [1..n -> 0..Len(w)], rates \in [1..n -> SamplingRates] :
              /\ SumSeq(lens) = Len(w)
              /\ audioData = Segmented(w, lens, rates)
    /\ wavPc = "call"
    /\ concatResult = [success |-> FALSE, error |-> "none"]
    /\ downloads = NoFile

\* a variant that accepts the empty list and writes a header-only container
ConcatenateEmptyContainer ==
    /\ wavPc = "call"
    /\ Len(audioData) = 0
    /\ downloads' = createWavBuffer(<<>>, 0)
    /\ concatResult' = [success |-> TRUE, error |-> "none"]
    /\ wavPc' = "returned"
    /\ UNCHANGED audioData
    /\ UNCHANGED <<chunkVars, uiVars, ocrVars, viewVars>>

\* if (audioData.length === 0) throw new Error("No audio data provided"), caught
ConcatenateEmpty ==
    /\ wavPc = "call"
    /\ Len(audioData) = 0
    /\ concatResult' = [success |-> FALSE, error |-> "No audio data provided"]
    /\ wavPc' = "returned"
    /\ UNCHANGED <<audioData, downloads>>
    /\ UNCHANGED <<chunkVars, uiVars, ocrVars, viewVars>>

\* the buffer is built and fs.writeFile stores it: { success: true, outputPath }
ConcatenateWrite ==
    /\ wavPc = "call"
    /\ Len(audioData) # 0
    /\ downloads' = WavOf(audioData)
    /\ concatResult' = [success |-> TRUE, error |-> "none"]
    /\ wavPc' = "returned"
    /\ UNCHANGED audioData
    /\ UNCHANGED <<chunkVars, uiVars, ocrVars, viewVars>>

\* the buffer is built and fs.writeFile rejects: caught, { success: false, error }
ConcatenateWriteFails ==
    /\ wavPc = "call"
    /\ Len(audioData) # 0
    /\ concatResult' = [success |-> FALSE, error |-> "write failed"]
    /\ wavPc' = "returned"
    /\ UNCHANGED <<audioData, downloads>>
    /\ UNCHANGED <<chunkVars, uiVars, ocrVars, viewVars>>

NextWav == ConcatenateEmpty \/ ConcatenateWrite \/ ConcatenateWriteFails

SpecWav == InitWav /\ [][NextWav]_vars

(***************************************************************************)
(* Properties of the assembled audio (checked under SpecWav).              *)
(***************************************************************************)
\* the unsigned 32-bit little-endian field at offset off
ReadUInt32LE(buf, off) ==
    buf[off + 1] + 256 * buf[off + 2] + 65536 * buf[off + 3] + 16777216 * buf[off + 4]

\* the signed 16-bit little-endian value at offset off
ReadInt16LE(buf, off) ==
    LET u == buf[off + 1] + 256 * buf[off + 2]
    IN  IF u >= 32768 THEN u - 65536 ELSE u

\* the samples of all segments, in list order
RECURSIVE AllSamples(_)
AllSamples(data) ==
    IF data = <<>> THEN <<>> ELSE Head(data).audio \o AllSamples(Tail(data))

Written == wavPc = "returned" /\ concatResult.success

\* C9: every sample s is stored as round(clamp(s, -1, 1) * 32767).
SamplesRounded ==
    Written =>
        \A j \in 1..Len(AllSamples(audioData)) :
            ReadInt16LE(downloads, 44 + 2 * (j - 1))
                = Round(Clamp(AllSamples(audioData)[j]) * 32767, 4)

\* C10: for a non-empty list of segments with T samples in total the buffer
\* has 44 + 2*T bytes, its RIFF size field is 36 + 2*T and its data size field
\* is 2*T; N segments of k samples each give 44 + 2*N*k bytes.
WavSizes ==
    Written =>
        LET T == Len(AllSamples(audioData))
            N == Len(audioData)
        IN  /\ Len(downloads) = 44 + 2 * T
            /\ ReadUInt32LE(downloads, 4) = 36 + 2 * T
            /\ ReadUInt32LE(downloads, 40) = 2 * T
            /\ \A k \in 0..T :
                   (\A i \in 1..N : Len(audioData[i].audio) = k)
                       => Len(downloads) = 44 + 2 * N * k

\* C10 witness: a file written from two or more segments that all hold samples.
WavSizesWitness ==
    /\ Written
    /\ Len(audioData) >= 2
    /\ \A i \in 1..Len(audioData) : Len(audioData[i].audio) >= 1

\* the number of samples in the segments before segment i (1-based)
RECURSIVE SegmentOffset(_, _)
SegmentOffset(data, i) ==
    IF i <= 1 THEN 0 ELSE SegmentOffset(data, i - 1) + Len(data[i - 1].audio)

\* C11: the payload holds the segments' samples in list order: sample j of
\* segment i is at payload index (total length of the segments before i) + j,
\* and the payload has exactly one 16-bit slot per input sample, so that no
\* sample is dropped, duplicated or overlapped.
PayloadInOrder ==
    Written =>
        /\ Len(downloads) - 44 = 2 * SumSeq([i \in 1..Len(audioData) |->
                                                Len(audioData[i].audio)])
        /\ \A i \in 1..Len(audioData) :
               \A j \in 1..Len(audioData[i].audio) :
                   ReadInt16LE(downloads,
                               44 + 2 * (SegmentOffset(audioData, i) + j - 1))
                       = Truncate(Clamp(audioData[i].audio[j]) * 32767, 4)

\* C11 witness: a file written from two segments of one sample each whose
\* stored values differ, so that an exchange or an overlap would show.
PayloadInOrderWitness ==
    /\ Written
    /\ Len(audioData) = 2
    /\ Len(audioData[1].audio) = 1
    /\ Len(audioData[2].audio) = 1
    /\ Clamp(audioData[1].audio[1]) # Clamp(audioData[2].audio[1])
    /\ Clamp(audioData[2].audio[1]) # 0

\* C12: called with an empty list of segments the handler returns a failure
\* result carrying "No audio data provided" and writes no file.
NoAudioDataOnEmpty ==
    (wavPc = "returned" /\ audioData = <<>>) =>
        /\ ~concatResult.success
        /\ concatResult.error = "No audio data provided"
        /\ downloads = NoFile

\* C12 witness: the handler has returned from a call with an empty list.
NoAudioDataOnEmptyWitness ==
    /\ wavPc = "returned"
    /\ audioData = <<>>
    /\ ~concatResult.success

\* the segments of data do not all have one sampling rate
MixedRates(data) ==
    \E i, j \in 1..Len(data) : data[i].sampling_rate # data[j].sampling_rate

\* C28: called with segments of differing sampling rates the handler fails
\* only if fs.writeFile does; the container it writes declares the first
\* segment's rate and holds one slot for every sample of every segment, with
\* that sample's value.
MixedRatesWritten ==
    (wavPc = "returned" /\ MixedRates(audioData)) =>
        /\ ~concatResult.success => concatResult.error = "write failed"
        /\ concatResult.success =>
               /\ ReadUInt32LE(downloads, 24) = audioData[1].sampling_rate
               /\ Len(downloads) = 44 + 2 * Len(AllSamples(audioData))
               /\ \A j \in 1..Len(AllSamples(audioData)) :
                      ReadInt16LE(downloads, 44 + 2 * (j - 1))
                          = Truncate(Clamp(AllSamples(audioData)[j]) * 32767, 4)

\* C28 witness: a file written from two segments of differing rates that
\* both hold a sample.
MixedRatesWrittenWitness ==
    /\ Written
    /\ Len(audioData) = 2
    /\ audioData[1].sampling_rate # audioData[2].sampling_rate
    /\ Len(audioData[1].audio) = 1
    /\ Len(audioData[2].audio) = 1

\* the unsigned 16-bit little-endian value at offset off
ReadUInt16LE(buf, off) == buf[off + 1] + 256 * buf[off + 2]

\* C29: a buffer written for sample rate r declares format tag 1, one channel,
\* sample rate r, byte rate 2 * r, block alignment 2 and 16 bits per sample;
\* the "data" chunk header ends at byte 44, where the first sample is, and
\* the samples follow one another two bytes apart up to the end of the buffer.
WavFormat ==
    Written =>
        LET r == audioData[1].sampling_rate
            samples == AllSamples(audioData)
        IN  /\ ReadUInt16LE(downloads, 20) = 1
            /\ ReadUInt16LE(downloads, 22) = 1
            /\ ReadUInt32LE(downloads, 24) = r
            /\ ReadUInt32LE(downloads, 28) = 2 * r
            /\ ReadUInt16LE(downloads, 32) = 2
            /\ ReadUInt16LE(downloads, 34) = 16
            /\ SubSeq(downloads, 37, 40) = <<100, 97, 116, 97>>
            /\ Len(downloads) = 44 + 2 * Len(samples)
            /\ \A j \in 1..Len(samples) :
                   ReadInt16LE(downloads, 44 + 2 * (j - 1))
                       = Truncate(Clamp(samples[j]) * 32767, 4)

\* C29 witness: a file written at 22050 Hz that holds two samples, the first
\* of which is not zero.
WavFormatWitness ==
    /\ Written
    /\ audioData[1].sampling_rate = 22050
    /\ Len(AllSamples(audioData)) = 2
    /\ Clamp(AllSamples(audioData)[1]) # 0

\* C30: chunkTextStrictly returns after at most Len(text) + 1 steps of its
\* loop: position stays within the text; an iteration that starts with more
\* than maxChunkSize characters left moves position strictly forward (and not
\* past the end of the text), and an iteration that starts with maxChunkSize
\* characters left or fewer pushes text.substring(position) as the last chunk
\* and ends the loop.
ChunkingTerminates ==
    /\ [](position >= 0 /\ position <= Len(text))
    /\ [][chunkPc = "loop" =>
             IF Len(text) - position <= maxChunkSize
             THEN /\ chunkPc' = "done"
                  /\ position < Len(text) =>
                         chunks' = Append(chunks, SubstringFrom(text, position))
             ELSE /\ chunkPc' = "loop"
                  /\ position' > position
                  /\ position' <= Len(text)]_vars

\* C30 witness: the function has returned after two cuts and a remainder.
ChunkingTerminatesWitness ==
    /\ chunkPc = "done"
    /\ Len(chunks) = 3
    /\ position > windowStart
    /\ windowStart > 0
    /\ position < Len(text)

(***************************************************************************)
(* Spec: the renderer.  UI events (file upload, language selection, the    *)
(* Generate button) interleave with the invocations of generateAudiobook   *)
(* at their await points.  An invocation keeps the inputLanguage and       *)
(* outputLanguage of the render in which the button was clicked, so the    *)
(* two language selects are the inputs of the click.                       *)
(*                                                                         *)
(* An event is one call of setProcessing: status, progress and message;    *)
(* the "(i/n)" of a message is held in the fields unit and total.          *)
(*                                                                         *)
(* A progress value is the exact rational num/den in lowest terms.         *)
(***************************************************************************)
Runs == {"r1", "r2"}

Languages == {"English", "Spanish"}

RECURSIVE GCD(_, _)
GCD(a, b) == IF b = 0 THEN a ELSE GCD(b, a % b)

\* the rational n/d, d > 0, n >= 0, in lowest terms
Frac(n, d) ==
    LET g == GCD(n, d)
    IN  [num |-> n \div g, den |-> d \div g]

Whole(n) == [num |-> n, den |-> 1]

FracLeq(x, y) == x.num * y.den <= y.num * x.den

\* progress: 60 + (i / textChunks.length) * 15
TranslatingProgress(i, n) == Frac(60 * n + 15 * i, n)

\* progress: 70 + (i / translatedTextChunks.length) * 15
TtsProgress(i, n) == Frac(70 * n + 15 * i, n)

\* a sentence of SentenceLen characters: letters, then "."
Sentence(letter) == [k \in 1..SentenceLen |-> IF k = SentenceLen THEN "." ELSE letter]

SentenceLetters == <<"a", "b", "c", "d", "e", "f">>

\* k sentences joined by single spaces: a cleaned text as process-audiobook returns it
RECURSIVE SentenceText(_)
SentenceText(k) ==
    IF k = 0 THEN <<>>
    ELSE IF k = 1 THEN Sentence(SentenceLetters[1])
    ELSE SentenceText(k - 1) \o <<" ">> \o Sentence(SentenceLetters[k])

RecognizedTexts == {SentenceText(k) : k \in 0..MaxSentences}

\* what translateWithOllama resolves to: some text that depends on the target
\* language and on the text to translate
Translation(inLang, outLang, textToTranslate) == <<outLang>> \o textToTranslate

\* what tts.generate may resolve to
SynthResults ==
    {[audio |-> <<4, -1>>, sampling_rate |-> 24000],
     [audio |-> <<1>>, sampling_rate |-> 22050]}

IdleRun ==
    [pc |-> "idle",
     inputLanguage |-> "English",
     outputLanguage |-> "English",
     resultText |-> <<>>,
     textChunks |-> <<>>,
     translatedTextChunks |-> <<>>,
     audioChunks |-> <<>>,
     i |-> 0,
     events |-> <<>>,
     calls |-> <<>>,
     outcomes |-> <<>>,
     results |-> <<>>,
     thrown |-> <<>>,
     file |-> NoFile]

Event(st, prog, msg, unit, total) ==
    [status |-> st, progress |-> prog, message |-> msg, unit |-> unit, total |-> total]

\* setProcessing({ status, progress, message }) called by an invocation
Emit(rec, ev) == [rec EXCEPT !.events = Append(@, ev)]

LastEvent(rec) == rec.events[Len(rec.events)]

\* one awaited call of a collaborator: unit is the chunk index, arg the text
\* handed over (<<>> where the call takes none; the translator takes
\* <<inputLanguage, outputLanguage, textToTranslate>>)
Call(name, unit, arg) == [name |-> name, unit |-> unit, arg |-> arg]

\* the invocation makes the call and awaits it
Invoke(rec, call) == [rec EXCEPT !.calls = Append(@, call)]

\* the awaited call has resolved ("ok") or has failed ("failed")
Settle(rec, outcome) == [rec EXCEPT !.outcomes = Append(@, outcome)]

\* the value an awaited call of loop iteration rec.i resolved to, as the
\* invocation holds it (const translationResult, const chunkAudio)
Returned(rec, name, value) ==
    [rec EXCEPT !.results = Append(@, [name |-> name, unit |-> rec.i, value |-> value])]

\* new Error(message)
NewError(message) == [isError |-> TRUE, message |-> message]

\* a thrown value that is no Error
NotAnError == [isError |-> FALSE, message |-> ""]

\* what an awaited promise of the renderer, or fs.writeFile, may reject with
Rejections == {NewError("boom"), NotAnError}

\* what the handler of process-audiobook may catch: the same, or an Error
\* with an empty message
Thrown == Rejections \cup {NewError("")}

\* error instanceof Error ? error.message : fallback
MessageOf(error, fallback) == IF error.isError THEN error.message ELSE fallback

\* value || fallback, for a string value
OrElse(value, fallback) == IF value = "" THEN fallback ELSE value

\* the error a collaborator of the invocation failed with, before any handler
\* or rethrow has reworded it
Raised(rec, error) == [rec EXCEPT !.thrown = Append(@, error)]

\* `Audiobook generation error: ${error instanceof Error ? error.message : "Unknown error"}`
ErrorText(error) == "Audiobook generation error: " \o MessageOf(error, "Unknown error")

\* a variant of the catch block that reports the error and lets the invocation
\* go on from where it was
CatchAndContinue(rec, error) ==
    Emit(rec, Event("error", Whole(0), ErrorText(error), 0, 0))

\* a variant of the catch block that swallows the error: nothing is reported
CatchSwallows(rec, error) == [rec EXCEPT !.pc = "swallowed"]

\* a variant of the catch block whose message says nothing of the error
CatchGeneric(rec, error) ==
    Emit([rec EXCEPT !.pc = "done"],
         Event("error", Whole(0), "Audiobook generation error", 0, 0))

\* the catch block: setProcessing({ status: "error", progress: 0,
\* message: `Audiobook generation error: ${...}` })
Catch(rec, error) ==
    Emit([rec EXCEPT !.pc = "done"], Event("error", Whole(0), ErrorText(error), 0, 0))

\* the tail of a loop iteration once translatedTextChunks[i] is pushed:
\* setProcessing(tts, ...), then "await tts.generate(translatedTextChunks[i], ...)"
ToGenerate(rec, i, pushed) ==
    Invoke(Emit([rec EXCEPT !.i = i, !.pc = "generate",
                            !.translatedTextChunks = pushed],
                Event("tts", TtsProgress(i, Len(pushed)),
                      "Generating speech...", i + 1, Len(pushed))),
           Call("tts.generate", i, pushed[i + 1]))

\* the head of a loop iteration when the languages differ: setProcessing(
\* translating, ...), then "await translateWithOllama(..., textChunks[i])"
ToTranslate(rec, i) ==
    Invoke(Emit([rec EXCEPT !.i = i, !.pc = "translate"],
                Event("translating", TranslatingProgress(i, Len(rec.textChunks)),
                      "Translating...", i + 1, Len(rec.textChunks))),
           Call("translateWithOllama", i,
                <<rec.inputLanguage, rec.outputLanguage, rec.textChunks[i + 1]>>))

\* past the loop: setProcessing(tts, 95), then
\* "await invoke('concatenate-audio-buffers', ...)"
ToConcatenate(rec, i) ==
    Invoke(Emit([rec EXCEPT !.i = i, !.pc = "concatenate"],
                Event("tts", Whole(95), "Combining audio chunks...", 0, 0)),
           Call("concatenate-audio-buffers", 0, <<>>))

\* a variant that translates every chunk, whatever the two languages are
LoopHeadAlwaysTranslates(rec, i) ==
    IF i < Len(rec.textChunks) THEN ToTranslate(rec, i) ELSE ToConcatenate(rec, i)

\* the invocation from the head of loop iteration i up to its next await
LoopHead(rec, i) ==
    IF i < Len(rec.textChunks)
    THEN IF rec.inputLanguage # rec.outputLanguage
         THEN ToTranslate(rec, i)
         ELSE ToGenerate(rec, i, Append(rec.translatedTextChunks, rec.textChunks[i + 1]))
    ELSE ToConcatenate(rec, i)

\* disabled={status !== "idle" && status !== "complete" && status !== "error"}
ButtonEnabled == processing.status \in {"idle", "complete", "error"}

\* the invocation has started and has not returned
InFlight(r) == run[r].pc \notin {"idle", "unused", "done"}

\* the renderer after construction; the user will click Generate at most once
Init ==
    /\ ChunkIdle
    /\ WavIdle
    /\ OcrIdle
    /\ ViewIdle
    /\ pdfFile = "null"
    /\ uploadPending = FALSE
    /\ processing = Event("idle", Whole(0), "", 0, 0)
    /\ run = [r \in Runs |-> IF r = "r1" THEN IdleRun
                              ELSE [IdleRun EXCEPT !.pc = "unused"]]

\* the renderer after construction; the user may click Generate twice
InitUI ==
    /\ ChunkIdle
    /\ WavIdle
    /\ OcrIdle
    /\ ViewIdle
    /\ pdfFile = "null"
    /\ uploadPending = FALSE
    /\ processing = Event("idle", Whole(0), "", 0, 0)
    /\ run = [r \in Runs |-> IdleRun]

\* handleFileUpload up to "await file.arrayBuffer()": setPdfFile(file)
HandleFileUpload ==
    /\ ~uploadPending
    /\ pdfFile' = "file"
    /\ uploadPending' = TRUE
    /\ UNCHANGED <<processing, run>>
    /\ UNCHANGED <<chunkVars, wavVars, ocrVars, viewVars>>

\* handleFileUpload resumes: setPdfData(...); setProcessing({ status: "idle", ... })
FileRead ==
    /\ uploadPending
    /\ uploadPending' = FALSE
    /\ processing' = Event("idle", Whole(0), "", 0, 0)
    /\ UNCHANGED <<pdfFile, run>>
    /\ UNCHANGED <<chunkVars, wavVars, ocrVars, viewVars>>

\* a click on the enabled Generate button: generateAudiobook up to
\* "await pdfFile.arrayBuffer()"
Generate(r) ==
    /\ ButtonEnabled
    /\ run[r].pc = "idle"
    /\ pdfFile # "null"
    /\ \E inputLanguage \in Languages, outputLanguage \in Languages :
          LET rec == Invoke(Emit([run[r] EXCEPT !.pc = "arrayBuffer",
                                                !.inputLanguage = inputLanguage,
                                                !.outputLanguage = outputLanguage],
                                 Event("cropping", Whole(10),
                                       "Cropping PDF pages...", 0, 0)),
                            Call("arrayBuffer", 0, <<>>))
          IN  /\ run' = [run EXCEPT ![r] = rec]
              /\ processing' = LastEvent(rec)
    /\ UNCHANGED <<pdfFile, uploadPending>>
    /\ UNCHANGED <<chunkVars, wavVars, ocrVars, viewVars>>

\* pdfFile.arrayBuffer() resolves: invoke("process-audiobook", ...) is sent
ArrayBufferResolves(r) ==
    /\ run[r].pc = "arrayBuffer"
    /\ run' = [run EXCEPT ![r] = Invoke(Settle([@ EXCEPT !.pc = "processAudiobook"], "ok"),
                                        Call("process-audiobook", 0, <<>>))]
    /\ UNCHANGED <<pdfFile, uploadPending, processing>>
    /\ UNCHANGED <<chunkVars, wavVars, ocrVars, viewVars>>

\* process-audiobook returns { success: true, text }: setProcessing(tts, 60),
\* then "await KokoroTTS.from_pretrained(...)"
ProcessAudiobookSucceeds(r) ==
    /\ run[r].pc = "processAudiobook"
    /\ \E t \in RecognizedTexts :
          LET rec == Invoke(Emit(Settle([run[r] EXCEPT !.pc = "loadModel",
                                                       !.resultText = t], "ok"),
                                 Event("tts", Whole(60), "Generating speech...", 0, 0)),
                            Call("from_pretrained", 0, <<>>))
          IN  /\ run' = [run EXCEPT ![r] = rec]
              /\ processing' = LastEvent(rec)
    /\ UNCHANGED <<pdfFile, uploadPending>>
    /\ UNCHANGED <<chunkVars, wavVars, ocrVars, viewVars>>

\* the handler of process-audiobook catches an error and returns
\* { success: false, error }: throw new Error(result.error || "Processing
\* failed"), caught
ProcessAudiobookFails(r) ==
    /\ run[r].pc = "processAudiobook"
    /\ \E error \in Thrown :
          LET result == [success |-> FALSE,
                         error |-> MessageOf(error, "Unknown processing error")]
              rec == Catch(Settle(Raised(run[r], error), "failed"),
                           NewError(OrElse(result.error, "Processing failed")))
          IN  /\ run' = [run EXCEPT ![r] = rec]
              /\ processing' = LastEvent(rec)
    /\ UNCHANGED <<pdfFile, uploadPending>>
    /\ UNCHANGED <<chunkVars, wavVars, ocrVars, viewVars>>

\* from_pretrained resolves: textChunks = chunkTextStrictly(result.text, 400),
\* then the loop up to its first await (or past it when there is no chunk)
ModelLoaded(r) ==
    /\ run[r].pc = "loadModel"
    /\ LET chunked == [run[r] EXCEPT
                          !.textChunks = chunkTextStrictly(run[r].resultText, ChunkSize)]
           rec == LoopHead(Settle(chunked, "ok"), 0)
       IN  /\ run' = [run EXCEPT ![r] = rec]
           /\ processing' = LastEvent(rec)
    /\ UNCHANGED <<pdfFile, uploadPending>>
    /\ UNCHANGED <<chunkVars, wavVars, ocrVars, viewVars>>

\* a variant that pushes the chunk itself, not what the translator returned
TranslateResolvesKeepsSource(r) ==
    /\ run[r].pc = "translate"
    /\ LET i == run[r].i
           translationResult == Translation(run[r].inputLanguage, run[r].outputLanguage,
                                            run[r].textChunks[i + 1])
           pushed == Append(run[r].translatedTextChunks, run[r].textChunks[i + 1])
           rec == ToGenerate(Returned(Settle(run[r], "ok"), "translateWithOllama",
                                      translationResult),
                             i, pushed)
       IN  /\ run' = [run EXCEPT ![r] = rec]
           /\ processing' = LastEvent(rec)
    /\ UNCHANGED <<pdfFile, uploadPending>>
    /\ UNCHANGED <<chunkVars, wavVars, ocrVars, viewVars>>

\* translateWithOllama resolves: push, setProcessing(tts, ...), then
\* "await tts.generate(...)"
TranslateResolves(r) ==
    /\ run[r].pc = "translate"
    /\ LET i == run[r].i
           translationResult == Translation(run[r].inputLanguage, run[r].outputLanguage,
                                            run[r].textChunks[i + 1])
           pushed == Append(run[r].translatedTextChunks, translationResult)
           rec == ToGenerate(Returned(Settle(run[r], "ok"), "translateWithOllama",
                                      translationResult),
                             i, pushed)
       IN  /\ run' = [run EXCEPT ![r] = rec]
           /\ processing' = LastEvent(rec)
    /\ UNCHANGED <<pdfFile, uploadPending>>
    /\ UNCHANGED <<chunkVars, wavVars, ocrVars, viewVars>>

\* a variant in which the segment is put at the front of audioChunks
GenerateResolvesUnshift(r) ==
    /\ run[r].pc = "generate"
    /\ \E chunkAudio \in SynthResults :
          LET pushed == [run[r] EXCEPT !.audioChunks = <<chunkAudio>> \o @]
              rec == LoopHead(Returned(Settle(pushed, "ok"), "tts.generate", chunkAudio),
                              run[r].i + 1)
          IN  /\ run' = [run EXCEPT ![r] = rec]
              /\ processing' = LastEvent(rec)
    /\ UNCHANGED <<pdfFile, uploadPending>>
    /\ UNCHANGED <<chunkVars, wavVars, ocrVars, viewVars>>

\* tts.generate resolves: audioChunks.push(...), i++, the next iteration up to
\* its first await, or past the loop: setProcessing(tts, 95) and the invoke of
\* concatenate-audio-buffers
GenerateResolves(r) ==
    /\ run[r].pc = "generate"
    /\ \E chunkAudio \in SynthResults :
          LET pushed == [run[r] EXCEPT !.audioChunks = Append(@, chunkAudio)]
              rec == LoopHead(Returned(Settle(pushed, "ok"), "tts.generate", chunkAudio),
                              run[r].i + 1)
          IN  /\ run' = [run EXCEPT ![r] = rec]
              /\ processing' = LastEvent(rec)
    /\ UNCHANGED <<pdfFile, uploadPending>>
    /\ UNCHANGED <<chunkVars, wavVars, ocrVars, viewVars>>

\* an awaited promise rejects (arrayBuffer, from_pretrained, translateWithOllama,
\* tts.generate): the catch block
AwaitRejects(r) ==
    /\ run[r].pc \in {"arrayBuffer", "loadModel", "translate", "generate"}
    /\ \E error \in Rejections :
          LET rec == Catch(Settle(Raised(run[r], error), "failed"), error)
          IN  /\ run' = [run EXCEPT ![r] = rec]
              /\ processing' = LastEvent(rec)
    /\ UNCHANGED <<pdfFile, uploadPending>>
    /\ UNCHANGED <<chunkVars, wavVars, ocrVars, viewVars>>

\* concatenate-audio-buffers runs on the invocation's audioChunks and returns
\* success: setProcessing(complete, 100)
ConcatenationSucceeds(r) ==
    /\ run[r].pc = "concatenate"
    /\ Len(run[r].audioChunks) # 0
    /\ audioData' = run[r].audioChunks
    /\ downloads' = WavOf(run[r].audioChunks)
    /\ concatResult' = [success |-> TRUE, error |-> "none"]
    /\ LET rec == Emit(Settle([run[r] EXCEPT !.pc = "done",
                                              !.file = downloads'],
                              "ok"),
                       Event("complete", Whole(100),
                             "Audiobook generated successfully!", 0, 0))
       IN  /\ run' = [run EXCEPT ![r] = rec]
           /\ processing' = LastEvent(rec)
    /\ UNCHANGED <<pdfFile, uploadPending, wavPc>>
    /\ UNCHANGED <<chunkVars, ocrVars, viewVars>>

\* what the handler of concatenate-audio-buffers may catch, given audioData
ConcatenationErrorsAny(data) == Rejections

ConcatenationErrors(data) ==
    IF Len(data) = 0 THEN {NewError("No audio data provided")} ELSE Rejections

\* a variant in which the handler has stored the file when it reports the
\* failure of a non-empty audioData
ConcatenationFailsAfterWrite(r) ==
    /\ run[r].pc = "concatenate"
    /\ audioData' = run[r].audioChunks
    /\ downloads' = IF Len(run[r].audioChunks) = 0 THEN downloads
                    ELSE WavOf(run[r].audioChunks)
    /\ \E error \in ConcatenationErrors(run[r].audioChunks) :
          /\ concatResult' =
                [success |-> FALSE,
                 error |-> MessageOf(error, "Audio buffer concatenation failed")]
          /\ LET rec == Catch(Settle(Raised([run[r] EXCEPT !.file = downloads'], error),
                                     "failed"),
                              NewError(OrElse(concatResult'.error,
                                              "Audio concatenation failed")))
             IN  /\ run' = [run EXCEPT ![r] = rec]
                 /\ processing' = LastEvent(rec)
    /\ UNCHANGED <<pdfFile, uploadPending, wavPc>>
    /\ UNCHANGED <<chunkVars, ocrVars, viewVars>>

\* the handler of concatenate-audio-buffers catches an error (its own
\* "No audio data provided" for an empty audioData, else what fs.writeFile
\* rejected with) and returns { success: false, error }: throw new Error(
\* concatenationResult.error || "Audio concatenation failed"), caught
ConcatenationFails(r) ==
    /\ run[r].pc = "concatenate"
    /\ audioData' = run[r].audioChunks
    /\ \E error \in ConcatenationErrors(run[r].audioChunks) :
          /\ concatResult' =
                [success |-> FALSE,
                 error |-> MessageOf(error, "Audio buffer concatenation failed")]
          /\ LET rec == Catch(Settle(Raised(run[r], error), "failed"),
                              NewError(OrElse(concatResult'.error,
                                              "Audio concatenation failed")))
             IN  /\ run' = [run EXCEPT ![r] = rec]
                 /\ processing' = LastEvent(rec)
    /\ UNCHANGED <<pdfFile, uploadPending, wavPc, downloads>>
    /\ UNCHANGED <<chunkVars, ocrVars, viewVars>>

Next ==
    \/ HandleFileUpload
    \/ FileRead
    \/ \E r \in Runs :
          \/ Generate(r)
          \/ ArrayBufferResolves(r)
          \/ ProcessAudiobookSucceeds(r)
          \/ ProcessAudiobookFails(r)
          \/ ModelLoaded(r)
          \/ TranslateResolves(r)
          \/ GenerateResolves(r)
          \/ AwaitRejects(r)
          \/ ConcatenationSucceeds(r)
          \/ ConcatenationFails(r)

Spec == Init /\ [][Next]_vars

SpecUI == InitUI /\ [][Next]_vars

\* an awaited call of invocation r returns or fails (the failures first)
Settles(r) ==
    \/ AwaitRejects(r)
    \/ ProcessAudiobookFails(r)
    \/ ConcatenationFails(r)
    \/ ArrayBufferResolves(r)
    \/ ProcessAudiobookSucceeds(r)
    \/ ModelLoaded(r)
    \/ TranslateResolves(r)
    \/ GenerateResolves(r)
    \/ ConcatenationSucceeds(r)

\* Spec, with every awaited call eventually returning or failing
SpecLive == Init /\ [][Next]_vars /\ \A r \in Runs : WF_vars(Settles(r))

(***************************************************************************)
(* Properties of generateAudiobook (checked under Spec).                   *)
(***************************************************************************)
Succeeded(r) ==
    /\ run[r].pc = "done"
    /\ LastEvent(run[r]).status = "complete"

\* C1: in a successful run the progress values passed to setProcessing are
\* non-decreasing and the last one is 100.
ProgressMonotone ==
    \A r \in Runs :
        Succeeded(r) =>
            /\ \A k \in 1..(Len(run[r].events) - 1) :
                   FracLeq(run[r].events[k].progress, run[r].events[k + 1].progress)
            /\ LastEvent(run[r]).progress = Whole(100)

\* C2: once a request has emitted a "tts" event, none of its later events
\* reports "translating".
NoTranslatingAfterTts ==
    \A r \in Runs :
        \A j, k \in 1..Len(run[r].events) :
            (j < k /\ run[r].events[j].status = "tts")
                => run[r].events[k].status # "translating"

\* C3: at most one invocation of generateAudiobook is in flight.
AtMostOneInFlight ==
    Cardinality({r \in Runs : InFlight(r)}) <= 1

\* the calls of invocation r to the collaborator called name, in call order
CallsTo(r, name) == SelectSeq(run[r].calls, LAMBDA c : c.name = name)

Failed(r) ==
    /\ run[r].pc = "done"
    /\ LastEvent(run[r]).status = "error"

\* C14: when an awaited collaborator call of a request fails, the request is
\* in the error state and that call is the last call it ever made: no call
\* follows the failed one, and no call is made twice for the same unit.
FailureStops ==
    \A r \in Runs :
        /\ \A k \in 1..Len(run[r].outcomes) :
               run[r].outcomes[k] = "failed" =>
                   /\ k = Len(run[r].outcomes)
                   /\ Len(run[r].calls) = k
                   /\ Failed(r)
        /\ \A j, k \in 1..Len(run[r].calls) :
               (/\ run[r].calls[j].name = run[r].calls[k].name
                /\ run[r].calls[j].unit = run[r].calls[k].unit) => j = k

\* C14 witness: a request that failed in the loop after one chunk had been
\* synthesized and while chunks were left.
FailureStopsWitness ==
    \E r \in Runs :
        /\ Failed(r)
        /\ Len(run[r].audioChunks) >= 1
        /\ Len(run[r].audioChunks) < Len(run[r].textChunks)
        /\ run[r].outcomes[Len(run[r].outcomes)] = "failed"

\* C15: a request has written an audio file exactly when it has ended in
\* complete; the file then holds one segment per chunk of the request and
\* every sample of these segments; a request that ended in error wrote none.
AllOrNothing ==
    \A r \in Runs :
        /\ run[r].file # NoFile <=> Succeeded(r)
        /\ Failed(r) => run[r].file = NoFile
        /\ Succeeded(r) =>
               /\ Len(run[r].textChunks) >= 1
               /\ Len(run[r].audioChunks) = Len(run[r].textChunks)
               /\ Len(run[r].file) = 44 + 2 * TotalLength(run[r].audioChunks)
               /\ downloads = run[r].file

\* C15 witness: a completed request of two chunks that wrote its file.
AllOrNothingWitness ==
    \E r \in Runs :
        /\ Succeeded(r)
        /\ Len(run[r].textChunks) = 2
        /\ run[r].file # NoFile

\* C16: a request whose two languages are equal never calls the translator,
\* emits no "translating" event, and hands the synthesizer the chunks of the
\* chunker, unchanged and in order (all of them once it has completed).
IdentitySkipsTranslation ==
    \A r \in Runs :
        (run[r].pc # "unused" /\ run[r].inputLanguage = run[r].outputLanguage) =>
            LET synth == CallsTo(r, "tts.generate")
            IN  /\ CallsTo(r, "translateWithOllama") = <<>>
                /\ \A k \in 1..Len(run[r].events) :
                       run[r].events[k].status # "translating"
                /\ Len(synth) <= Len(run[r].textChunks)
                /\ \A k \in 1..Len(synth) :
                       /\ synth[k].unit = k - 1
                       /\ synth[k].arg = run[r].textChunks[k]
                /\ Succeeded(r) => Len(synth) = Len(run[r].textChunks)

\* C16 witness: a completed request of two chunks with equal languages.
IdentitySkipsTranslationWitness ==
    \E r \in Runs :
        /\ Succeeded(r)
        /\ run[r].inputLanguage = run[r].outputLanguage
        /\ Len(run[r].textChunks) = 2
        /\ Len(CallsTo(r, "tts.generate")) = 2

Terminal(ev) == ev.status \in {"complete", "error"}

\* C18: a request that has started eventually ends, complete or error, given
\* that every awaited call returns or fails; it emits one terminal event at
\* most, and that event is its last.
EventuallyTerminal ==
    /\ \A r \in Runs :
           InFlight(r) ~> (run[r].pc = "done" /\ Terminal(LastEvent(run[r])))
    /\ [](\A r \in Runs :
             \A k \in 1..Len(run[r].events) :
                 Terminal(run[r].events[k]) =>
                     (k = Len(run[r].events) /\ run[r].pc = "done"))

\* C18 witness: a request has ended after going through the loop twice.
EventuallyTerminalWitness ==
    \E r \in Runs :
        /\ run[r].pc = "done"
        /\ Terminal(LastEvent(run[r]))
        /\ run[r].i = 2

\* C20: in a written container every segment handed to the encoder has the
\* sample rate the header declares (offset 24).
UniformSampleRate ==
    \A r \in Runs :
        Succeeded(r) =>
            \A k \in 1..Len(run[r].audioChunks) :
                run[r].audioChunks[k].sampling_rate = ReadUInt32LE(run[r].file, 24)

\* C21: the displayed status is idle, complete or error exactly when no
\* invocation of generateAudiobook is in flight.
StatusReflectsInFlight ==
    (processing.status \in {"idle", "complete", "error"})
        <=> (\A r \in Runs : ~InFlight(r))

\* C22: in every request, ended or not, complete or error, each progress value
\* passed to setProcessing lies in [0, 100] and is not below the one before it.
ProgressNeverDrops ==
    \A r \in Runs :
        /\ \A k \in 1..Len(run[r].events) :
               /\ FracLeq(Whole(0), run[r].events[k].progress)
               /\ FracLeq(run[r].events[k].progress, Whole(100))
        /\ \A k \in 1..(Len(run[r].events) - 1) :
               FracLeq(run[r].events[k].progress, run[r].events[k + 1].progress)

\* C23: every per-chunk event ("(unit/total)" in its message) counts against
\* the number n of chunks of the request, and its progress is the stage's
\* start (60 for translating, 70 for tts) plus (unit - 1) / n of the stage's
\* width 15.
InterpolatedProgress ==
    \A r \in Runs :
        \A k \in 1..Len(run[r].events) :
            LET ev == run[r].events[k]
                n == Len(run[r].textChunks)
                stageStart == IF ev.status = "translating" THEN 60 ELSE 70
            IN  ev.unit >= 1 =>
                    /\ ev.total = n
                    /\ ev.progress = Frac(stageStart * n + 15 * (ev.unit - 1), n)

\* the number of events of invocation r that carry status st
EventsWith(r, st) ==
    Cardinality({k \in 1..Len(run[r].events) : run[r].events[k].status = st})

\* C24: a completed request of n chunks has emitted one "cropping" event, at
\* least one "ocr" event (on entering recognition), and, when its languages
\* differ, n + 1 "translating" events (one on entering, one after each chunk).
EmissionPolicy ==
    \A r \in Runs :
        Succeeded(r) =>
            /\ EventsWith(r, "cropping") = 1
            /\ EventsWith(r, "ocr") >= 1
            /\ run[r].inputLanguage # run[r].outputLanguage =>
                   EventsWith(r, "translating") = Len(run[r].textChunks) + 1

\* the values the calls of invocation r to the collaborator called name
\* resolved to, in the order of their return
ResultsOf(r, name) == SelectSeq(run[r].results, LAMBDA x : x.name = name)

\* invocation r has reached the assembly: it has called concatenate-audio-buffers
Assembling(r) == CallsTo(r, "concatenate-audio-buffers") # <<>>

\* C25: tts.generate is called once per chunk, in chunk order, and a call is
\* made only when every earlier call has returned; audioChunks[i] is what the
\* call for chunk i resolved to; a request that reaches the assembly has made
\* n calls and hands over its n segments in that order.
OneSynthesisPerChunk ==
    \A r \in Runs :
        LET synth == CallsTo(r, "tts.generate")
            res == ResultsOf(r, "tts.generate")
            n == Len(run[r].textChunks)
        IN  /\ Len(run[r].calls) - Len(run[r].outcomes) \in {0, 1}
            /\ Len(synth) <= n
            /\ \A k \in 1..Len(synth) : synth[k].unit = k - 1
            /\ Len(synth) - Len(res) \in {0, 1}
            /\ Len(run[r].audioChunks) = Len(res)
            /\ \A k \in 1..Len(res) :
                   /\ res[k].unit = k - 1
                   /\ run[r].audioChunks[k] = res[k].value
            /\ Assembling(r) =>
                   /\ Len(synth) = n
                   /\ Len(run[r].audioChunks) = n
            /\ (Assembling(r) /\ run[r].pc = "done") => audioData = run[r].audioChunks

\* C25 witness: a completed request of two chunks whose two segments differ.
OneSynthesisPerChunkWitness ==
    \E r \in Runs :
        /\ Succeeded(r)
        /\ Len(run[r].audioChunks) = 2
        /\ run[r].audioChunks[1] # run[r].audioChunks[2]
        /\ audioData = run[r].audioChunks

\* C26: a request whose languages differ calls translateWithOllama once per
\* chunk, in chunk order, with (inputLanguage, outputLanguage, textChunks[i]);
\* the text handed to tts.generate for chunk i is what that call resolved to.
TranslatedOncePerChunk ==
    \A r \in Runs :
        (run[r].pc # "unused" /\ run[r].inputLanguage # run[r].outputLanguage) =>
            LET tr == CallsTo(r, "translateWithOllama")
                res == ResultsOf(r, "translateWithOllama")
                synth == CallsTo(r, "tts.generate")
                n == Len(run[r].textChunks)
            IN  /\ Len(tr) <= n
                /\ \A k \in 1..Len(tr) :
                       /\ tr[k].unit = k - 1
                       /\ tr[k].arg = <<run[r].inputLanguage, run[r].outputLanguage,
                                        run[r].textChunks[k]>>
                /\ Len(tr) - Len(res) \in {0, 1}
                /\ Len(synth) = Len(res)
                /\ \A k \in 1..Len(res) :
                       /\ res[k].unit = k - 1
                       /\ synth[k].unit = k - 1
                       /\ synth[k].arg = res[k].value
                       /\ run[r].translatedTextChunks[k] = res[k].value
                /\ Assembling(r) => Len(tr) = n

\* C26 witness: a completed request of two chunks whose languages differ.
TranslatedOncePerChunkWitness ==
    \E r \in Runs :
        /\ Succeeded(r)
        /\ run[r].inputLanguage # run[r].outputLanguage
        /\ Len(run[r].textChunks) = 2
        /\ Len(CallsTo(r, "translateWithOllama")) = 2
        /\ Len(CallsTo(r, "tts.generate")) = 2

ViewportScale == 2

\* the heights and the width of a page, in source pixels
PageHeights == {100, 120}

PageWidths == {80}

\* the values the two crop sliders are drawn from
CropValues == {0, 50, 60}

\* what the recognizer may read below the page's own mark
PageBodies == {<<"a", "-", "\n">>, <<"b", " ", " ", "c", ".", "\n">>}

PageMarks == <<"1", "2", "3", "4", "5">>

\* the text worker.recognize resolves to for a page: the page's mark, then a body
RecognizedText(pageNumber, pageBody) == <<PageMarks[pageNumber]>> \o pageBody

\* tesseractCodes.find((l) => l.name === language)?.code || "eng"
TesseractCode(lang) ==
    CASE lang = "English" -> "eng"
      [] lang = "Spanish" -> "spa"
      [] lang = "French" -> "fra"
      [] lang = "Hindi" -> "hin"
      [] lang = "Italian" -> "ita"
      [] lang = "Japanese" -> "jpn"
      [] lang = "Portuguese" -> "por"
      [] lang = "Chinese" -> "chi-sim"
      [] OTHER -> "eng"

\* one rendered page: { pageNumber, width, height, content }
RenderedPage(pageNumber) ==
    [pageNumber |-> pageNumber,
     width |-> ViewportScale * (CHOOSE w \in PageWidths : TRUE),
     height |-> ViewportScale * pageHeight[pageNumber]]

\* pdfToPng walking pagesToProcess: a listed page is rendered when the document has it
RECURSIVE RenderListed(_)
RenderListed(pages) ==
    IF pages = <<>> THEN <<>>
    ELSE IF Head(pages) >= 1 /\ Head(pages) <= numPages
         THEN <<RenderedPage(Head(pages))>> \o RenderListed(Tail(pages))
         ELSE RenderListed(Tail(pages))

\* pdfToPng walking the document from page pageNumber on: a page is rendered
\* when pagesToProcess includes it
RECURSIVE RenderIncluded(_, _)
RenderIncluded(pages, pageNumber) ==
    IF pageNumber > numPages THEN <<>>
    ELSE IF \E k \in 1..Len(pages) : pages[k] = pageNumber
         THEN <<RenderedPage(pageNumber)>> \o RenderIncluded(pages, pageNumber + 1)
         ELSE RenderIncluded(pages, pageNumber + 1)

\* what pdfToPng(pdfBuffer, { ..., pagesToProcess }) may resolve to
PdfToPng(pagesToProcess) ==
    {RenderListed(pagesToProcess), RenderIncluded(pagesToProcess, 1)}

\* a variant that leaves the top margin in source pixels
topMarginPxUnscaled == cropSettings.top

\* const topMarginPx = cropSettings.top * 2
topMarginPx == cropSettings.top * 2

\* const bottomMarginPx = cropSettings.bottom * 2
bottomMarginPx == cropSettings.bottom * 2

\* const sharpOptions = { left, top, width, height }; the sizes are integers,
\* so Math.floor leaves them as they are
SharpOptions(image) ==
    [pageNumber |-> image.pageNumber,
     left |-> 0,
     top |-> topMarginPx,
     width |-> image.width,
     height |-> image.height - topMarginPx - bottomMarginPx]

\* extract(options) accepts the options
ValidExtract(options) ==
    /\ options.left >= 0
    /\ options.top >= 0
    /\ options.width > 0
    /\ options.height > 0

(***************************************************************************)
(* The cleanup pass of the handler: five String.prototype.replace calls.   *)
(***************************************************************************)
\* \w
IsWordChar(c) ==
    c \in {"a", "b", "c", "d", "e", "f", "g", "h", "i", "j", "k", "l", "m",
           "n", "o", "p", "q", "r", "s", "t", "u", "v", "w", "x", "y", "z",
           "A", "B", "C", "D", "E", "F", "G", "H", "I", "J", "K", "L", "M",
           "N", "O", "P", "Q", "R", "S", "T", "U", "V", "W", "X", "Y", "Z",
           "0", "1", "2", "3", "4", "5", "6", "7", "8", "9", "_"}

\* the length of the longest prefix of s made of whitespace
RECURSIVE SpaceRun(_)
SpaceRun(s) == IF s # <<>> /\ IsSpace(Head(s)) THEN 1 + SpaceRun(Tail(s)) ELSE 0

\* the length of the longest prefix of s made of "\n"
RECURSIVE NewlineRun(_)
NewlineRun(s) == IF s # <<>> /\ Head(s) = "\n" THEN 1 + NewlineRun(Tail(s)) ELSE 0

\* the length of the longest prefix of s made of word characters
RECURSIVE WordRun(_)
WordRun(s) == IF s # <<>> /\ IsWordChar(Head(s)) THEN 1 + WordRun(Tail(s)) ELSE 0

\* .replace(/\s+/g, " ")
RECURSIVE CollapseWhitespace(_)
CollapseWhitespace(s) ==
    IF s = <<>> THEN <<>>
    ELSE IF IsSpace(Head(s))
         THEN <<" ">> \o CollapseWhitespace(SubSeq(s, SpaceRun(s) + 1, Len(s)))
         ELSE <<Head(s)>> \o CollapseWhitespace(Tail(s))

\* .replace(/\n+/g, "\n")
RECURSIVE CollapseNewlines(_)
CollapseNewlines(s) ==
    IF s = <<>> THEN <<>>
    ELSE IF Head(s) = "\n"
         THEN <<"\n">> \o CollapseNewlines(SubSeq(s, NewlineRun(s) + 1, Len(s)))
         ELSE <<Head(s)>> \o CollapseNewlines(Tail(s))

\* the length of the separator the pattern accepts at the head of s:
\* \s+ (the whole run: a word character must follow), or one \n
SeparatorRun(s, separator) ==
    IF separator = "\\s+" THEN SpaceRun(s)
    ELSE IF s # <<>> /\ Head(s) = "\n" THEN 1 ELSE 0

\* .replace(/(\w+)-\s+(\w+)/g, "$1$2") and .replace(/(\w+)-\n(\w+)/g, "$1$2"):
\* leftmost match first, the search resuming after the end of each match
RECURSIVE JoinHyphenated(_, _)
JoinHyphenated(s, separator) ==
    IF s = <<>> THEN <<>>
    ELSE IF IsWordChar(Head(s))
         THEN LET w     == WordRun(s)
                  after == SubSeq(s, w + 2, Len(s))
                  g     == SeparatorRun(after, separator)
                  rest  == SubSeq(after, g + 1, Len(after))
                  w2    == WordRun(rest)
              IN  IF w < Len(s) /\ s[w + 1] = "-" /\ g >= 1 /\ w2 >= 1
                  THEN SubSeq(s, 1, w) \o SubSeq(rest, 1, w2)
                           \o JoinHyphenated(SubSeq(rest, w2 + 1, Len(rest)), separator)
                  ELSE SubSeq(s, 1, w) \o JoinHyphenated(SubSeq(s, w + 1, Len(s)), separator)
         ELSE <<Head(s)>> \o JoinHyphenated(Tail(s), separator)

\* .replace(/\n/g, " ")
NewlinesToSpaces(s) == [k \in 1..Len(s) |-> IF s[k] = "\n" THEN " " ELSE s[k]]

\* a variant without the first replace: runs of whitespace are kept
CleanTextNoCollapse(s) ==
    NewlinesToSpaces(
        JoinHyphenated(JoinHyphenated(CollapseNewlines(s), "\\s+"), "\\n"))

\* const cleanedText = extractedText.replace(...).replace(...)...
CleanText(s) ==
    NewlinesToSpaces(
        JoinHyphenated(
            JoinHyphenated(CollapseNewlines(CollapseWhitespace(s)), "\\s+"),
            "\\n"))

(***************************************************************************)
(* The handler.                                                            *)
(***************************************************************************)
\* const [startPage, endPage] = pageRange
startPage == pageRange[1]

endPage == pageRange[2]

\* const pagesToProcess = endPage - startPage + 1
pagesToProcess == endPage - startPage + 1

\* the catch block: return { success: false, error: error.message }
ReturnFailure(errorMessage) ==
    /\ ocrPc' = "returned"
    /\ ocrResult' = [success |-> FALSE, text |-> <<>>, pageCount |-> 0,
                     error |-> errorMessage]

\* the handler from the head of the for-of loop at image idx up to its next
\* await, or past the loop to its return: the cleanup pass, fs.rmdir (not
\* awaited), return { success: true, text, pageCount }
OcrLoopHead(idx, txt) ==
    /\ imageIdx' = idx
    /\ extractedText' = txt
    /\ IF idx < Len(images)
       THEN LET sharpOptions == SharpOptions(images[idx + 1])
            IN  /\ extractCalls' = Append(extractCalls, sharpOptions)
                /\ IF ValidExtract(sharpOptions)
                   THEN /\ ocrPc' = "extract"
                        /\ UNCHANGED ocrResult
                   ELSE ReturnFailure("Expected positive integer for height")
                /\ UNCHANGED rmdirInitiated
       ELSE /\ UNCHANGED extractCalls
            /\ rmdirInitiated' = TRUE
            /\ ocrPc' = "returned"
            /\ ocrResult' = [success |-> TRUE, text |-> CleanText(txt),
                             pageCount |-> pagesToProcess, error |-> "none"]

\* the handler is invoked with every small request and awaits pdfToPng
InitOcr ==
    /\ ChunkIdle
    /\ WavIdle
    /\ UiIdle
    /\ ViewIdle
    /\ numPages \in 1..MaxPages
    /\ pageHeight \in [1..numPages -> PageHeights]
    /\ \E first \in 0..MaxPages : \E last \in first..MaxPages :
          pageRange = <<first, last>>
    /\ cropSettings \in [top : CropValues, bottom : CropValues]
    /\ language \in Languages
    /\ images = <<>>
    /\ imageIdx = 0
    /\ extractCalls = <<>>
    /\ recognizeCalls = <<>>
    /\ recognized = <<>>
    /\ extractedText = <<>>
    /\ ocrPc = "render"
    /\ ocrResult = [success |-> FALSE, text |-> <<>>, pageCount |-> 0, error |-> "none"]
    /\ tempFolder = FALSE
    /\ rmdirInitiated = FALSE

\* pdfToPng resolves; then "await createWorker(languageCode)"
RenderPages ==
    /\ ocrPc = "render"
    /\ \E rendered \in PdfToPng(<<startPage, endPage>>) :
          images' = rendered
    /\ tempFolder' = TRUE
    /\ ocrPc' = "createWorker"
    /\ UNCHANGED <<numPages, pageHeight, pageRange, cropSettings, language, imageIdx,
                   extractCalls, recognizeCalls, recognized, extractedText, ocrResult,
                   rmdirInitiated>>
    /\ UNCHANGED <<chunkVars, wavVars, uiVars, viewVars>>

\* pdfToPng rejects: caught
RenderFails ==
    /\ ocrPc = "render"
    /\ ReturnFailure("pdfToPng failed")
    /\ UNCHANGED <<numPages, pageHeight, pageRange, cropSettings, language, images,
                   imageIdx, extractCalls, recognizeCalls, recognized, extractedText,
                   tempFolder, rmdirInitiated>>
    /\ UNCHANGED <<chunkVars, wavVars, uiVars, viewVars>>

\* createWorker resolves: the loop starts
WorkerCreated ==
    /\ ocrPc = "createWorker"
    /\ OcrLoopHead(0, <<>>)
    /\ UNCHANGED <<numPages, pageHeight, pageRange, cropSettings, language, images,
                   recognizeCalls, recognized, tempFolder>>
    /\ UNCHANGED <<chunkVars, wavVars, uiVars, viewVars>>

\* createWorker rejects: caught
WorkerFails ==
    /\ ocrPc = "createWorker"
    /\ ReturnFailure("createWorker failed")
    /\ UNCHANGED <<numPages, pageHeight, pageRange, cropSettings, language, images,
                   imageIdx, extractCalls, recognizeCalls, recognized, extractedText,
                   tempFolder, rmdirInitiated>>
    /\ UNCHANGED <<chunkVars, wavVars, uiVars, viewVars>>

\* sharp(...).extract(...).toBuffer() resolves; then "await worker.recognize(...)"
ExtractResolves ==
    /\ ocrPc = "extract"
    /\ recognizeCalls' = Append(recognizeCalls, images[imageIdx + 1].pageNumber)
    /\ ocrPc' = "recognize"
    /\ UNCHANGED <<numPages, pageHeight, pageRange, cropSettings, language, images,
                   imageIdx, extractCalls, recognized, extractedText, ocrResult,
                   tempFolder, rmdirInitiated>>
    /\ UNCHANGED <<chunkVars, wavVars, uiVars, viewVars>>

\* sharp(...).extract(...).toBuffer() rejects: caught
ExtractRejects ==
    /\ ocrPc = "extract"
    /\ ReturnFailure("toBuffer failed")
    /\ UNCHANGED <<numPages, pageHeight, pageRange, cropSettings, language, images,
                   imageIdx, extractCalls, recognizeCalls, recognized, extractedText,
                   tempFolder, rmdirInitiated>>
    /\ UNCHANGED <<chunkVars, wavVars, uiVars, viewVars>>

\* worker.recognize resolves: extractedText += text, then the next image
RecognizeResolves ==
    /\ ocrPc = "recognize"
    /\ \E pageBody \in PageBodies :
          LET pageText == RecognizedText(images[imageIdx + 1].pageNumber, pageBody)
          IN  /\ recognized' = Append(recognized, pageText)
              /\ OcrLoopHead(imageIdx + 1, extractedText \o pageText)
    /\ UNCHANGED <<numPages, pageHeight, pageRange, cropSettings, language, images,
                   recognizeCalls, tempFolder>>
    /\ UNCHANGED <<chunkVars, wavVars, uiVars, viewVars>>

\* worker.recognize rejects: caught
RecognizeRejects ==
    /\ ocrPc = "recognize"
    /\ ReturnFailure("recognize failed")
    /\ UNCHANGED <<numPages, pageHeight, pageRange, cropSettings, language, images,
                   imageIdx, extractCalls, recognizeCalls, recognized, extractedText,
                   tempFolder, rmdirInitiated>>
    /\ UNCHANGED <<chunkVars, wavVars, uiVars, viewVars>>

\* the removal started by fs.rmdir completes
RmdirCompletes ==
    /\ rmdirInitiated
    /\ tempFolder
    /\ tempFolder' = FALSE
    /\ UNCHANGED <<numPages, pageHeight, pageRange, cropSettings, language, images,
                   imageIdx, extractCalls, recognizeCalls, recognized, extractedText,
                   ocrPc, ocrResult, rmdirInitiated>>
    /\ UNCHANGED <<chunkVars, wavVars, uiVars, viewVars>>

NextOcr ==
    \/ RenderPages
    \/ RenderFails
    \/ WorkerCreated
    \/ WorkerFails
    \/ ExtractResolves
    \/ ExtractRejects
    \/ RecognizeResolves
    \/ RecognizeRejects
    \/ RmdirCompletes

SpecOcr == InitOcr /\ [][NextOcr]_vars

(***************************************************************************)
(* Properties of process-audiobook (checked under SpecOcr).                *)
(***************************************************************************)
\* the page numbers a, a + 1, ..., b
PageSeq(a, b) == [k \in 1..(b - a + 1) |-> a + k - 1]

OcrSucceeded == ocrPc = "returned" /\ ocrResult.success

\* C13: a request with startPage <= endPage <= pageCount that succeeds has
\* obtained exactly one rendered page for every page of startPage..endPage, has
\* called the recognizer exactly once for each of them, in ascending order, and
\* its text is the recognized texts concatenated in that order.
OnePagePerPageInRange ==
    (OcrSucceeded /\ 1 <= startPage /\ startPage <= endPage /\ endPage <= numPages) =>
        /\ [k \in 1..Len(images) |-> images[k].pageNumber] = PageSeq(startPage, endPage)
        /\ recognizeCalls = PageSeq(startPage, endPage)
        /\ Len(recognized) = Len(recognizeCalls)
        /\ extractedText = Concat(recognized)

\* C17: the cropper is never called with a zero or negative height; a request
\* whose margins, in rendered pixels, reach the rendered height of one of its
\* pages is rejected; with both margins 0 no crop is refused.
CropRegionValidated ==
    /\ \A k \in 1..Len(extractCalls) : extractCalls[k].height > 0
    /\ (/\ ocrPc = "returned"
        /\ \E pg \in startPage..endPage :
              /\ pg >= 1
              /\ pg <= numPages
              /\ topMarginPx + bottomMarginPx >= ViewportScale * pageHeight[pg])
           => ~ocrResult.success
    /\ (cropSettings.top = 0 /\ cropSettings.bottom = 0) =>
           \A k \in 1..Len(extractCalls) : ValidExtract(extractCalls[k])

\* the pages of startPage..endPage that the document has, in ascending order
InRangePages ==
    SelectSeq(PageSeq(startPage, endPage), LAMBDA pg : pg >= 1 /\ pg <= numPages)

\* C31: no page outside 1..numPages is ever rendered, and a request whose
\* range reaches below 1 or above numPages and that succeeds has rendered and
\* recognized every page of its range that the document has, in order.
OutOfRangeSkipped ==
    /\ \A k \in 1..Len(images) :
           images[k].pageNumber >= 1 /\ images[k].pageNumber <= numPages
    /\ (OcrSucceeded /\ (startPage < 1 \/ endPage > numPages)) =>
           /\ [k \in 1..Len(images) |-> images[k].pageNumber] = InRangePages
           /\ recognizeCalls = InRangePages

\* C32: every region handed to extract starts at column 0 and at row
\* top * s, spans the rendered width, and is as high as the rendered height
\* less top * s and bottom * s, where s is the scale the page was rendered at
\* and top, bottom are the margins of the request in source pixels.
CropScaled ==
    \A k \in 1..Len(extractCalls) :
        LET options == extractCalls[k]
            rendered == RenderedPage(options.pageNumber)
        IN  /\ options.left = 0
            /\ options.top = cropSettings.top * ViewportScale
            /\ options.width = rendered.width
            /\ options.height = rendered.height - cropSettings.top * ViewportScale
                                     - cropSettings.bottom * ViewportScale
            /\ rendered.height = ViewportScale * pageHeight[options.pageNumber]

\* C32 witness: a request with margins 50 and 60 has succeeded after cropping
\* a page of height 120 to the rows 100..119 of its 240.
CropScaledWitness ==
    /\ OcrSucceeded
    /\ cropSettings = [top |-> 50, bottom |-> 60]
    /\ \E k \in 1..Len(extractCalls) :
           /\ extractCalls[k].top = 100
           /\ extractCalls[k].height = 20

(***************************************************************************)
(* SpecClean: the cleanup pass of the handler on its own, for every text   *)
(* of at most MaxCleanLen characters the recognizer may have produced.     *)
(***************************************************************************)
\* a word character, the hyphen, and two whitespace characters
CleanAlphabet == {"a", "-", " ", "\n"}

\* the handler past its loop, with extractedText complete
InitClean ==
    /\ ChunkIdle
    /\ WavIdle
    /\ UiIdle
    /\ ViewIdle
    /\ numPages = 1
    /\ pageHeight = <<100>>
    /\ pageRange = <<1, 1>>
    /\ cropSettings = [top |-> 0, bottom |-> 0]
    /\ language = "English"
    /\ images = <<>>
    /\ imageIdx = 0
    /\ extractCalls = <<>>
    /\ recognizeCalls = <<>>
    /\ recognized = <<>>
    /\ \E k \in 0..MaxCleanLen : extractedText \in [1..k -> CleanAlphabet]
    /\ ocrPc = "cleanup"
    /\ ocrResult = [success |-> FALSE, text |-> <<>>, pageCount |-> 0, error |-> "none"]
    /\ tempFolder = TRUE
    /\ rmdirInitiated = FALSE

\* const cleanedText = ...; fs.rmdir(...); return { success: true, text: cleanedText, ... }
CleanupPass ==
    /\ ocrPc = "cleanup"
    /\ ocrResult' = [success |-> TRUE, text |-> CleanText(extractedText),
                     pageCount |-> pagesToProcess, error |-> "none"]
    /\ rmdirInitiated' = TRUE
    /\ ocrPc' = "returned"
    /\ UNCHANGED <<numPages, pageHeight, pageRange, cropSettings, language, images,
                   imageIdx, extractCalls, recognizeCalls, recognized, extractedText,
                   tempFolder>>
    /\ UNCHANGED <<chunkVars, wavVars, uiVars, viewVars>>

SpecClean == InitClean /\ [][CleanupPass]_vars

\* s holds a word character, "-", whitespace and a word character in a row
HyphenBreak(s) ==
    \E k \in 1..(Len(s) - 3) :
        /\ IsWordChar(s[k])
        /\ s[k + 1] = "-"
        /\ IsSpace(s[k + 2])
        /\ IsWordChar(s[k + 3])

\* C33: the cleaned text holds no word character followed by "-", whitespace
\* and a word character.
HyphenBreaksRejoined ==
    OcrSucceeded => ~HyphenBreak(ocrResult.text)

\* s holds a newline, or two whitespace characters side by side
LooseWhitespace(s) ==
    \/ \E k \in 1..Len(s) : s[k] = "\n"
    \/ \E k \in 1..(Len(s) - 1) : IsSpace(s[k]) /\ IsSpace(s[k + 1])

\* C34: the text the handler returns is the recognized text after one cleanup
\* pass; it holds no newline and no two whitespace characters side by side.
CleanedOnce ==
    OcrSucceeded =>
        /\ ocrResult.text = CleanText(extractedText)
        /\ ~LooseWhitespace(ocrResult.text)

\* C34 witness: a recognized text with a newline between words and a run of
\* two spaces between words has been cleaned.
CleanedOnceWitness ==
    /\ OcrSucceeded
    /\ \E k \in 1..(Len(extractedText) - 2) :
           /\ extractedText[k] = "a"
           /\ extractedText[k + 1] = "\n"
           /\ extractedText[k + 2] = "a"
    /\ \E k \in 1..(Len(extractedText) - 3) :
           /\ extractedText[k] = "a"
           /\ extractedText[k + 1] = " "
           /\ extractedText[k + 2] = " "
           /\ extractedText[k + 3] = "a"

(***************************************************************************)
(* The page view and the crop controls of the renderer (App.tsx 609-676,   *)
(* 939-981, 1050-1099), up to the submission of a request.                 *)
(*                                                                         *)
(* pageRange and cropSettings are the renderer's state here; Generate      *)
(* passes them by value to process-audiobook, whose arguments they are     *)
(* from then on.  numPages is the renderer's state numPages and pageHeight *)
(* the pages of the document react-pdf has loaded.                         *)
(***************************************************************************)
\* the documents a chosen file can hold
Documents == UNION {[1..n -> PageHeights] : n \in 1..MaxPages}

\* useState cropSettings: { top: 50, bottom: 50 }
DefaultCrop == 50

\* Math.round(height * 0.08), the margins set by the first page load
DefaultMargin(height) == Round(8 * height, 100)

\* max={Math.round(pageInfo.height * 0.4)} of both crop sliders
SliderMax(height) == Round(4 * height, 10)

\* the positions of a crop slider that the model tries: min, max
SliderValues(height) == {0, SliderMax(height)}

InitCrop ==
    /\ ChunkIdle
    /\ WavIdle
    /\ UiIdle
    /\ ViewIdle
    /\ numPages = 0
    /\ pageHeight = <<>>
    /\ pageRange = <<1, 1>>
    /\ cropSettings = [top |-> DefaultCrop, bottom |-> DefaultCrop]
    /\ language = "English"
    /\ images = <<>>
    /\ imageIdx = 0
    /\ extractCalls = <<>>
    /\ recognizeCalls = <<>>
    /\ recognized = <<>>
    /\ extractedText = <<>>
    /\ ocrPc = "idle"
    /\ ocrResult = [success |-> FALSE, text |-> <<>>, pageCount |-> 0, error |-> "none"]
    /\ tempFolder = FALSE
    /\ rmdirInitiated = FALSE

\* what the view's actions leave alone
ViewFrame ==
    /\ UNCHANGED <<language, images, imageIdx, extractCalls, recognizeCalls, recognized,
                   extractedText, ocrPc, ocrResult, tempFolder, rmdirInitiated>>
    /\ UNCHANGED <<chunkVars, wavVars, uiVars>>

\* <Document file={pdfData} onLoadSuccess={onDocumentLoadSuccess}>: react-pdf has
\* loaded the data of the last upload, whatever pages it holds.  A further load
\* stands for the load after a further upload, which leaves the rest of the
\* state as it is.
onDocumentLoadSuccess ==
    /\ ocrPc = "idle"
    /\ pdfFile = "file"
    /\ ~uploadPending
    /\ \E doc \in Documents :
          /\ pageHeight' = doc
          /\ numPages' = Len(doc)
          /\ currentPage' = 1
          /\ pageRange' = <<1, Len(doc)>>
    /\ UNCHANGED <<cropSettings, pageInfo, cropInitialized>>
    /\ ViewFrame

\* <Page pageNumber={currentPage} onLoadSuccess={onPageLoadSuccess}>
onPageLoadSuccess ==
    /\ ocrPc = "idle"
    /\ currentPage \in 1..Len(pageHeight)
    /\ LET height == pageHeight[currentPage]
       IN  /\ pageInfo' = [pageInfo EXCEPT !.height = height]
           /\ IF ~cropInitialized
              THEN /\ cropSettings' = [top |-> DefaultMargin(height),
                                       bottom |-> DefaultMargin(height)]
                   /\ cropInitialized' = TRUE
              ELSE UNCHANGED <<cropSettings, cropInitialized>>
    /\ UNCHANGED <<numPages, pageHeight, pageRange, currentPage>>
    /\ ViewFrame

\* the page range slider (min 1, max numPages)
handlePageRangeChange ==
    /\ ocrPc = "idle"
    /\ pdfFile = "file"
    /\ \E first \in 1..numPages : \E last \in first..numPages :
          pageRange' = <<first, last>>
    /\ UNCHANGED <<numPages, pageHeight, cropSettings, viewVars>>
    /\ ViewFrame

\* a crop slider (min 0, max 40% of pageInfo.height): the value is stored as it is
handleCropChange(type) ==
    /\ ocrPc = "idle"
    /\ pdfFile = "file"
    /\ \E value \in SliderValues(pageInfo.height) :
          cropSettings' = [cropSettings EXCEPT ![type] = value]
    /\ UNCHANGED <<numPages, pageHeight, pageRange, viewVars>>
    /\ ViewFrame

Max(a, b) == IF a >= b THEN a ELSE b

Min(a, b) == IF a <= b THEN a ELSE b

\* the Previous button, disabled when currentPage <= 1
goToPrevPage ==
    /\ ocrPc = "idle"
    /\ numPages > 0
    /\ currentPage > 1
    /\ currentPage' = Max(1, currentPage - 1)
    /\ UNCHANGED <<numPages, pageHeight, pageRange, cropSettings, pageInfo, cropInitialized>>
    /\ ViewFrame

\* the Next button, disabled when currentPage >= numPages
goToNextPage ==
    /\ ocrPc = "idle"
    /\ numPages > 0
    /\ currentPage < numPages
    /\ currentPage' = Min(numPages, currentPage + 1)
    /\ UNCHANGED <<numPages, pageHeight, pageRange, cropSettings, pageInfo, cropInitialized>>
    /\ ViewFrame

\* generateAudiobook invokes process-audiobook with { pageRange, cropSettings }
SubmitRequest ==
    /\ ocrPc = "idle"
    /\ pdfFile = "file"
    /\ ocrPc' = "render"
    /\ UNCHANGED <<numPages, pageHeight, pageRange, cropSettings, language, images, imageIdx,
                   extractCalls, recognizeCalls, recognized, extractedText, ocrResult,
                   tempFolder, rmdirInitiated>>
    /\ UNCHANGED <<chunkVars, wavVars, uiVars, viewVars>>

NextCrop ==
    \/ (ocrPc = "idle" /\ HandleFileUpload)
    \/ (ocrPc = "idle" /\ FileRead)
    \/ onDocumentLoadSuccess
    \/ onPageLoadSuccess
    \/ handlePageRangeChange
    \/ \E type \in {"top", "bottom"} : handleCropChange(type)
    \/ goToPrevPage
    \/ goToNextPage
    \/ SubmitRequest

SpecCrop == InitCrop /\ [][NextCrop]_vars

\* C35: the crop margins of a submitted request are non-negative, each at most 40%
\* of the height of the page they are shown against, and together less than that
\* height, whatever uploads, page loads, navigation and slider changes came before
SubmittedCropBounded ==
    ocrPc = "render" =>
        /\ cropSettings.top >= 0
        /\ cropSettings.bottom >= 0
        /\ cropSettings.top <= SliderMax(pageInfo.height)
        /\ cropSettings.bottom <= SliderMax(pageInfo.height)
        /\ cropSettings.top + cropSettings.bottom < pageInfo.height

\* process-audiobook has returned the empty text to the invocation
EmptyTextReceived(r) ==
    /\ CallsTo(r, "from_pretrained") # <<>>
    /\ run[r].resultText = <<>>

NoAudioDataMessage == "Audiobook generation error: No audio data provided"

\* C36: a request whose recognized and cleaned text is empty has no chunks, calls
\* neither the translator nor the synthesizer, never reports complete and writes no
\* file; once the synthesizer has loaded it goes straight to assembly, and it ends
\* in the error state with the message of assembly for zero segments
EmptyTextEndsInNoAudioData ==
    \A r \in Runs :
        EmptyTextReceived(r) =>
            /\ run[r].textChunks = <<>>
            /\ run[r].audioChunks = <<>>
            /\ CallsTo(r, "translateWithOllama") = <<>>
            /\ CallsTo(r, "tts.generate") = <<>>
            /\ EventsWith(r, "complete") = 0
            /\ run[r].file = NoFile
            /\ (\A q \in Runs \ {r} : ~Assembling(q)) => downloads = NoFile
            /\ run[r].pc \in {"loadModel", "concatenate", "done"}
            /\ run[r].pc = "concatenate" => Assembling(r)
            /\ run[r].pc = "done" =>
                   /\ Failed(r)
                   /\ Assembling(r) =>
                          /\ audioData = <<>>
                          /\ LastEvent(run[r]).message = NoAudioDataMessage

EmptyTextEndsInNoAudioDataWitness ==
    \E r \in Runs :
        /\ EmptyTextReceived(r)
        /\ Assembling(r)
        /\ Failed(r)
        /\ LastEvent(run[r]).message = NoAudioDataMessage
        /\ downloads = NoFile

\* C37: whenever the process-audiobook handler has returned, with success or with
\* failure, the removal of the folder libre-lyre-temp has been initiated
RemovalInitiatedOnReturn ==
    ocrPc = "returned" => rmdirInitiated
====
